---- MODULE Spec2Model ----
(***************************************************************************)
(* Bingo caller: the renderer script (src/src/js/script.js) and the Web    *)
(* Audio cue player (src/unnamed/part_000) as one state machine.           *)
(*                                                                         *)
(* Every event handler and timer callback of the two files is one action.  *)
(* JavaScript runs each callback to completion, so an action is atomic.    *)
(* Time is kept as the remaining delay (ms) of every pending timer; the    *)
(* action Elapse lets time pass up to the next timer that is due, and a    *)
(* timer fires when its remaining delay is 0.  User events and messages    *)
(* from the main process may occur in any state.                           *)
(*                                                                         *)
(* Display-only effects (currentNumber.textContent, the highlight class,   *)
(* button opacity, the rendered history list, console.log, fullscreen) are *)
(* not part of the state: no handler reads them back.                      *)
(***************************************************************************)
EXTENDS Integers, Sequences, FiniteSets, TLC

(***************************************************************************)
(* Bounds of the model.                                                    *)
(***************************************************************************)
\* The size of the number pool.  The source writes the literal 75 in
\* window.onload, in the exhaustion guard and in the recover listener; the
\* model uses PoolSize at each of those places.
PoolSize == 2
\* How many "readLogFile" requests (recoveries) a session makes.
MaxRecoverRequests == 1
\* How many times the user changes a field of the settings modal.
MaxEdits == 1
\* The largest pool the shuffle is run on, in SpecShuffle.
MaxShuffle == 5

(***************************************************************************)
(* Program constants.                                                      *)
(***************************************************************************)
animationLengthMin == 1000
animationLengthMax == 10000
interval == 50
OnloadDelay == 1500
RecoverDelay == 500

\* The value of a number that is undefined or NaN (a let without
\* initialiser, parseInt of a missing field, undefined / 1000).
NaN == -1
\* An array element that does not exist (bingoNumbers[i] past the end).
undefined == 0
\* No timer pending.
NoTimer == -1

\* Durations (ms) the settings file or the user may supply: below the
\* minimum, within the range, above the maximum.
DurationInputs == {500, 4000, 15000}

VARIABLES
    bingoNumbers,                    \* script.js:10
    calledNumbers,                   \* script.js:16
    drawingCount,                    \* script.js:22
    animationLength,                 \* script.js:40
    individualFirstAnimationSetting, \* script.js:46
    firstAnimationLength,            \* script.js:52
    inputAnimationLength,            \* script.js:83  .value of the input
    animationToggle,                 \* script.js:84  .checked of the checkbox
    inputFirstAnimation,             \* script.js:85  [value, disabled]
    saveLogFolder,                   \* script.js:331 .value is non-empty
    modalOpen,                       \* script.js:327 class is-open
    disabled,                        \* .game-control-btn disabled
    animations,                      \* running setInterval callbacks of animateNumber
    enableTimers,                    \* pending setTimeout(..., time) of the click handler
    onloadTimer,                     \* pending setTimeout(..., 1500) of window.onload
    listenTimers,                    \* pending setTimeout(..., 500) of the complete handler
    recoverListeners,                \* listeners registered on "recover"
    pendingReads,                    \* readLogFile requests not yet answered
    sent,                            \* gameStart / countUpdate messages sent
    alerted,                         \* alert('すべての番号が出ました') was shown
    audioBuffers,                    \* part_000:27  loaded cue names
    cueLoad,                         \* part_000:40  the promise of each cue's load
    audioEvents,                     \* scheduled start/stop of buffer source nodes
    settingsReceived,                \* the "settings" message has arrived
    readRequests, edits              \* counters for the bounds

vars == <<bingoNumbers, calledNumbers, drawingCount, animationLength,
          individualFirstAnimationSetting, firstAnimationLength,
          inputAnimationLength, animationToggle, inputFirstAnimation,
          saveLogFolder, modalOpen, disabled, animations, enableTimers,
          onloadTimer, listenTimers, recoverListeners, pendingReads, sent,
          alerted, audioBuffers, cueLoad, audioEvents,
                   settingsReceived, readRequests, edits>>

gameVars == <<bingoNumbers, calledNumbers, drawingCount>>
configVars == <<animationLength, individualFirstAnimationSetting, firstAnimationLength>>
formVars == <<inputAnimationLength, animationToggle, inputFirstAnimation, saveLogFolder, modalOpen>>
timerVars == <<animations, enableTimers, onloadTimer, listenTimers>>
recoverVars == <<recoverListeners, pendingReads, readRequests>>
audioVars == <<audioBuffers, cueLoad, audioEvents>>

(***************************************************************************)
(* Helpers on sequences.                                                   *)
(***************************************************************************)
RemoveAt(s, i) == [j \in 1..(Len(s) - 1) |-> IF j < i THEN s[j] ELSE s[j + 1]]

Min(S) == CHOOSE x \in S : \A y \in S : x <= y

\* JavaScript array read a[i] with a 0-based index.
At(a, i) == IF i + 1 \in DOMAIN a THEN a[i + 1] ELSE undefined

\* JavaScript array write a[i] = v with a 0-based index i <= a.length.
Put(a, i, v) == IF i + 1 \in DOMAIN a THEN [a EXCEPT ![i + 1] = v] ELSE Append(a, v)

(***************************************************************************)
(* Pure functions of script.js.                                            *)
(***************************************************************************)
\* forRange(a, z): the array a, a+1, ..., z.
forRange(a, z) == [i \in 1..(z - a + 1) |-> a + i - 1]

\* The results of Math.floor(Math.random() * (i + 1)) for i = n-1 .. 1,
\* one per iteration of the shuffle loop: rnd[i] \in 0..i.
RandomChoices(n) == {rnd \in [1..(n - 1) -> 0..(n - 1)] : \A i \in 1..(n - 1) : rnd[i] <= i}

RECURSIVE ShuffleLoop_Overwrite(_, _, _)
\* The loop of fisherYateShuffle without the write of tmp to index r.
ShuffleLoop_Overwrite(numberArray, i, rnd) ==
    IF i > 0
    THEN ShuffleLoop_Overwrite([numberArray EXCEPT ![i + 1] = numberArray[rnd[i] + 1]],
                               i - 1, rnd)
    ELSE numberArray

RECURSIVE ShuffleLoop(_, _, _)
\* The loop body of fisherYateShuffle from index i (0-based) down to 1.
ShuffleLoop(numberArray, i, rnd) ==
    IF i > 0
    THEN LET r == rnd[i]
             tmp == numberArray[i + 1]
         IN  ShuffleLoop([numberArray EXCEPT ![i + 1] = numberArray[r + 1], ![r + 1] = tmp],
                         i - 1, rnd)
    ELSE numberArray

fisherYateShuffle(numberArray, rnd) == ShuffleLoop(numberArray, Len(numberArray) - 1, rnd)

\* parseInt of a field of the settings message: a whole number of ms is
\* itself, a missing field is NaN.
parseInt(v) == IF v = NaN THEN NaN ELSE v

\* inputValueCheck without its upper bound.
inputValueCheck_NoUpperBound(value) ==
    IF value < animationLengthMin THEN animationLengthMin ELSE value

\* inputValueCheck(inputValueElem): the value it returns; it also writes
\* that value back to the element when it clamps.  The element's value
\* is a numeric string, compared as the number it denotes.
inputValueCheck(value) ==
    IF value < animationLengthMin THEN animationLengthMin
    ELSE IF value > animationLengthMax THEN animationLengthMax
    ELSE value

\* `time` of the drawButton click handler (line 201).
ClickTime ==
    IF drawingCount = 0 /\ animationToggle THEN firstAnimationLength ELSE animationLength

\* `duration` as if animateNumber ran after drawingCount++.
AnimateDuration_AfterIncrement ==
    IF drawingCount + 1 = 0 /\ animationToggle
    THEN firstAnimationLength ELSE animationLength

\* `duration` of animateNumber (line 243).
AnimateDuration ==
    IF drawingCount = 0 /\ animationToggle THEN firstAnimationLength ELSE animationLength

\* time / 1000: seconds, kept as a whole number of thousandths of a second.
ToSeconds(ms) == IF ms = NaN THEN NaN ELSE ms

\* count < steps with steps = duration / interval; false when steps is NaN.
CountBelowSteps(count, duration) == duration # NaN /\ count * interval < duration

\* drawingCount++ (line 202): undefined and NaN become NaN.
Increment(count) == IF count = NaN THEN NaN ELSE count + 1

\* The delay setTimeout uses for `time`: NaN and negative values are 0.
TimeoutDelay(time) == IF time = NaN \/ time < 0 THEN 0 ELSE time

(***************************************************************************)
(* Sound cue player (part_000).                                            *)
(***************************************************************************)
audioFiles == {"drawButton", "drawStart", "drawStop"}

\* One scheduled call on a buffer source node: source.start(when) or
\* source.stop(when).  `rem` is when - audioContext.currentTime, in
\* thousandths of a second; `call` numbers the playDrawSound call.
AudioEvent(call, cue, op, rem) ==
    [call |-> call, cue |-> cue, op |-> op, rem |-> rem, buffer |-> cue \in audioBuffers]

\* When the tick cue's stop is scheduled, relative to currentTime (line 109).
TickStopOffset(playTime) == playTime

\* sourceStop.start() without its `when`: the stop cue starts at once.
StopStartOffset_Immediate(playTime) == 0

\* When the stop cue's start is scheduled, relative to currentTime (line 110).
StopStartOffset(playTime) == playTime

\* playDrawSound(playTime): the calls it schedules, and whether it throws.
\* stop(when) and start(when) reject a non-finite `when` with a TypeError,
\* after sourcePush.start() and sourceStart.start() have run.
playDrawSound(call, playTime) ==
    LET begun == <<AudioEvent(call, "drawButton", "start", 0),
                   AudioEvent(call, "drawStart", "start", 0)>>
    IN  IF playTime = NaN
        THEN [threw |-> TRUE, events |-> begun]
        ELSE [threw |-> FALSE,
              events |-> begun \o
                  <<AudioEvent(call, "drawStart", "stop", TickStopOffset(playTime)),
                    AudioEvent(call, "drawStop", "start", StopStartOffset(playTime))>>]

(***************************************************************************)
(* Initial state: the scripts have run and the load event has fired, so    *)
(* window.onload has set its 1500 ms timer and the audio preload is under  *)
(* way.  No settings message has arrived yet.                              *)
(***************************************************************************)
Init ==
    /\ bingoNumbers = <<>>
    /\ calledNumbers = <<>>
    /\ drawingCount = 0
    /\ animationLength = NaN
    /\ individualFirstAnimationSetting = FALSE
    /\ firstAnimationLength = NaN
    /\ inputAnimationLength = 0
    /\ animationToggle = FALSE
    /\ inputFirstAnimation = [value |-> 0, disabled |-> FALSE]
    /\ saveLogFolder = FALSE
    /\ modalOpen = FALSE
    /\ disabled = FALSE
    /\ animations = <<>>
    /\ enableTimers = <<>>
    /\ onloadTimer = OnloadDelay
    /\ listenTimers = <<>>
    /\ recoverListeners = 0
    /\ pendingReads = 0
    /\ sent = <<>>
    /\ alerted = FALSE
    /\ audioBuffers = {}
    /\ cueLoad = [name \in audioFiles |-> "loading"]
    /\ audioEvents = <<>>
    /\ settingsReceived = FALSE
    /\ readRequests = 0
    /\ edits = 0

(***************************************************************************)
(* Draw: the drawButton click handler, animateNumber and the timers.       *)
(***************************************************************************)
\* animateNumber(targetNumber): starts the 50 ms interval.
animateNumber(targetNumber) ==
    [target |-> targetNumber, count |-> 0, duration |-> AnimateDuration, rem |-> interval]

\* The exhaustion guard of the click handler (line 186).
PoolExhausted == Len(calledNumbers) >= PoolSize

\* The channel chosen as if drawingCount were tested before its increment.
NotificationKind_BeforeIncrement(count) == IF count = 0 THEN "gameStart" ELSE "countUpdate"

\* The channel of the notification for the incremented count (line 205).
NotificationKind(count) == IF count = 1 THEN "gameStart" ELSE "countUpdate"

\* The count carried by the notification (lines 210, 218).
NotificationCount(count) == count

\* A click on the draw button that finds every number called: alert, return.
DrawRefused ==
    /\ ~disabled
    /\ PoolExhausted
    /\ alerted' = TRUE
    /\ UNCHANGED <<gameVars, configVars, formVars, disabled, timerVars, recoverVars,
                   sent, audioVars, settingsReceived, edits>>

\* A click on the draw button that is accepted.  A disabled button
\* dispatches no click event.
DrawAccepted ==
    /\ ~disabled
    /\ ~PoolExhausted
    /\ LET number == At(bingoNumbers, drawingCount)
           time == ClickTime
           sound == playDrawSound(Len(sent) + 1, ToSeconds(time))
       IN  /\ animations' = Append(animations, animateNumber(number))
           /\ drawingCount' = Increment(drawingCount)
           /\ sent' = Append(sent, [channel |-> NotificationKind(Increment(drawingCount)),
                                    bingoNumbers |-> bingoNumbers,
                                    drawingCount |-> NotificationCount(Increment(drawingCount))])
           /\ audioEvents' = audioEvents \o sound.events
           /\ disabled' = TRUE
           /\ enableTimers' = IF sound.threw THEN enableTimers
                              ELSE Append(enableTimers, TimeoutDelay(time))
    /\ UNCHANGED <<bingoNumbers, calledNumbers, configVars, formVars, onloadTimer,
                   listenTimers, recoverVars, alerted, audioBuffers, cueLoad,
                   settingsReceived, edits>>

\* The setInterval callback of animateNumber on its last run: the interval
\* is cleared and the number is appended to the history.
FinalTick(i) ==
    /\ i \in DOMAIN animations
    /\ animations[i].rem = 0
    /\ ~CountBelowSteps(animations[i].count, animations[i].duration)
    /\ animations' = RemoveAt(animations, i)
    /\ calledNumbers' = Append(calledNumbers, animations[i].target)
    /\ UNCHANGED <<bingoNumbers, drawingCount, configVars, formVars, disabled, enableTimers,
                   onloadTimer, listenTimers, recoverVars, sent, alerted, audioVars,
                   settingsReceived, edits>>

\* The setTimeout callback of the click handler: the buttons are enabled.
EnableTimerFire(i) ==
    /\ i \in DOMAIN enableTimers
    /\ enableTimers[i] = 0
    /\ enableTimers' = RemoveAt(enableTimers, i)
    /\ disabled' = FALSE
    /\ UNCHANGED <<gameVars, configVars, formVars, animations, onloadTimer, listenTimers,
                   recoverVars, sent, alerted, audioVars,
                   settingsReceived, edits>>

(***************************************************************************)
(* Start-up and settings.                                                  *)
(***************************************************************************)
\* The "settings" listener (line 76).
SettingsMessage(argAnimationLength, argIndividual, argFirstAnimationLength) ==
    /\ settingsReceived' = TRUE
    /\ animationLength' = parseInt(argAnimationLength)
    /\ individualFirstAnimationSetting' = argIndividual
    /\ firstAnimationLength' = parseInt(argFirstAnimationLength)
    /\ UNCHANGED <<gameVars, formVars, disabled, timerVars, recoverVars, sent, alerted,
                   audioVars,
                    edits>>

\* What an <input> holds after .value = v: a value that is no number
\* leaves the field empty, and an empty field compares as 0.
InputValue(v) == IF v = NaN THEN 0 ELSE v

\* The setTimeout callback of window.onload (line 122) for a pool of the
\* numbers 1..n.
OnloadCallback(n, rnd) ==
    /\ onloadTimer = 0
    /\ onloadTimer' = NoTimer
    /\ bingoNumbers' = fisherYateShuffle(forRange(1, n), rnd)
    /\ inputAnimationLength' = InputValue(animationLength)
    /\ animationToggle' = individualFirstAnimationSetting
    /\ inputFirstAnimation' =
           [value |-> InputValue(firstAnimationLength),
            disabled |-> IF individualFirstAnimationSetting THEN inputFirstAnimation.disabled
                         ELSE TRUE]
    /\ UNCHANGED <<calledNumbers, drawingCount, configVars, saveLogFolder, modalOpen, disabled,
                   animations, enableTimers, listenTimers, recoverVars, sent, alerted,
                   audioVars,
                   settingsReceived, edits>>

\* The callback with the pool size of the session.
OnloadTimerFire(rnd) == OnloadCallback(PoolSize, rnd)

\* The settings button (line 337).
ModalButtonClick ==
    /\ ~modalOpen
    /\ modalOpen' = TRUE
    /\ UNCHANGED <<gameVars, configVars, inputAnimationLength, animationToggle,
                   inputFirstAnimation, saveLogFolder, disabled, timerVars, recoverVars,
                   sent, alerted, audioVars,
                   settingsReceived, edits>>

\* The user types a duration into the animation length field.
EditAnimationLength(v) ==
    /\ modalOpen
    /\ edits < MaxEdits
    /\ edits' = edits + 1
    /\ inputAnimationLength' = v
    /\ UNCHANGED <<gameVars, configVars, animationToggle, inputFirstAnimation, saveLogFolder,
                   modalOpen, disabled, timerVars, recoverVars, sent, alerted, audioVars,
                   settingsReceived>>

\* The user types a duration into the first animation length field.
EditFirstAnimation(v) ==
    /\ modalOpen
    /\ ~inputFirstAnimation.disabled
    /\ edits < MaxEdits
    /\ edits' = edits + 1
    /\ inputFirstAnimation' = [inputFirstAnimation EXCEPT !.value = v]
    /\ UNCHANGED <<gameVars, configVars, inputAnimationLength, animationToggle, saveLogFolder,
                   modalOpen, disabled, timerVars, recoverVars, sent, alerted, audioVars,
                   settingsReceived>>

\* The user flips the checkbox; its change handler (line 412) runs.
ToggleChange ==
    /\ modalOpen
    /\ edits < MaxEdits
    /\ edits' = edits + 1
    /\ animationToggle' = ~animationToggle
    /\ inputFirstAnimation' = [inputFirstAnimation EXCEPT !.disabled = animationToggle]
    /\ UNCHANGED <<gameVars, configVars, inputAnimationLength, saveLogFolder, modalOpen,
                   disabled, timerVars, recoverVars, sent, alerted, audioVars,
                   
                   settingsReceived>>

\* The user picks a log file (line 451): saveLogFolder.value is not "".
SelectLogFile ==
    /\ modalOpen
    /\ ~saveLogFolder
    /\ saveLogFolder' = TRUE
    /\ UNCHANGED <<gameVars, configVars, inputAnimationLength, animationToggle,
                   inputFirstAnimation, modalOpen, disabled, timerVars, recoverVars, sent,
                   alerted, audioVars,
                   settingsReceived, edits>>

\* The cancel button (line 402).
ModalClose ==
    /\ modalOpen
    /\ modalOpen' = FALSE
    /\ inputAnimationLength' = InputValue(animationLength)
    /\ UNCHANGED <<gameVars, configVars, animationToggle, inputFirstAnimation, saveLogFolder,
                   disabled, timerVars, recoverVars, sent, alerted, audioVars,
                   
                   settingsReceived, edits>>

\* The complete button (line 346).
ModalComplete ==
    /\ modalOpen
    /\ saveLogFolder => readRequests < MaxRecoverRequests
    /\ modalOpen' = FALSE
    /\ animationLength' = inputValueCheck(inputAnimationLength)
    /\ inputAnimationLength' = inputValueCheck(inputAnimationLength)
    /\ individualFirstAnimationSetting' = animationToggle
    /\ firstAnimationLength' = inputValueCheck(inputFirstAnimation.value)
    /\ inputFirstAnimation' =
           [inputFirstAnimation EXCEPT !.value = inputValueCheck(inputFirstAnimation.value)]
    /\ IF saveLogFolder
       THEN /\ readRequests' = readRequests + 1
            /\ pendingReads' = pendingReads + 1
            /\ listenTimers' = Append(listenTimers, RecoverDelay)
       ELSE UNCHANGED <<readRequests, pendingReads, listenTimers>>
    /\ UNCHANGED <<gameVars, animationToggle, saveLogFolder, disabled, animations,
                   enableTimers, onloadTimer, recoverListeners, sent, alerted, audioVars,
                   settingsReceived, edits>>

(***************************************************************************)
(* Recovery from a log file.                                               *)
(***************************************************************************)
\* The pools a log file of an earlier session can hold.
ShuffledPools == {fisherYateShuffle(forRange(1, PoolSize), rnd) : rnd \in RandomChoices(PoolSize)}

\* arg.returnNumbers of a well-formed "recover" message: the pool followed
\* by the draw count.
Snapshots == {pool \o <<k>> : pool \in ShuffledPools, k \in 0..PoolSize}

RECURSIVE RestorePool(_, _, _)
\* for (i = from; i < PoolSize; i++) bingoNumbers[i] = returnNumbers[i]
RestorePool(numbers, returnNumbers, i) ==
    IF i < PoolSize
    THEN RestorePool(Put(numbers, i, At(returnNumbers, i)), returnNumbers, i + 1)
    ELSE numbers

RECURSIVE RestoreHistory(_, _, _, _)
\* for (j = from; j < drawingCount; j++) calledNumbers.push(bingoNumbers[j])
RestoreHistory(called, numbers, count, j) ==
    IF j < count
    THEN RestoreHistory(Append(called, At(numbers, j)), numbers, count, j + 1)
    ELSE called

\* drawingCount = arg.returnNumbers[75] (line 384): a count that is not
\* there is undefined, which counts and compares as NaN.
CountOf(returnNumbers) ==
    IF PoolSize + 1 \in DOMAIN returnNumbers THEN returnNumbers[PoolSize + 1] ELSE NaN

\* One run of the "recover" listener (line 378) on the state g.
RecoverListener(g, returnNumbers) ==
    LET numbers == RestorePool(g.bingoNumbers, returnNumbers, 0)
        count == CountOf(returnNumbers)
    IN  [bingoNumbers |-> numbers,
         drawingCount |-> count,
         calledNumbers |-> RestoreHistory(g.calledNumbers, numbers, count, 0)]

RECURSIVE RunListeners(_, _, _)
\* Every registered listener runs on the message, one after the other.
RunListeners(g, returnNumbers, n) ==
    IF n = 0 THEN g ELSE RunListeners(RecoverListener(g, returnNumbers), returnNumbers, n - 1)

\* The setTimeout callback of the complete handler: window.api.on("recover").
ListenTimerFire(i) ==
    /\ i \in DOMAIN listenTimers
    /\ listenTimers[i] = 0
    /\ listenTimers' = RemoveAt(listenTimers, i)
    /\ recoverListeners' = recoverListeners + 1
    /\ UNCHANGED <<gameVars, configVars, formVars, disabled, animations, enableTimers,
                   onloadTimer, pendingReads, readRequests, sent, alerted, audioVars,
                   settingsReceived, edits>>

\* The main process answers a readLogFile request with "recover".
RecoverMessage(returnNumbers) ==
    /\ pendingReads > 0
    /\ pendingReads' = pendingReads - 1
    /\ LET g == RunListeners([bingoNumbers |-> bingoNumbers, drawingCount |-> drawingCount,
                              calledNumbers |-> calledNumbers],
                             returnNumbers, recoverListeners)
       IN  /\ bingoNumbers' = g.bingoNumbers
           /\ drawingCount' = g.drawingCount
           /\ calledNumbers' = g.calledNumbers
    /\ UNCHANGED <<configVars, formVars, disabled, timerVars, recoverListeners, readRequests,
                   sent, alerted, audioVars,
                   settingsReceived, edits>>

(***************************************************************************)
(* Audio preload.                                                          *)
(***************************************************************************)
\* The fetch and decode of one cue end: decodeAudioData calls back and the
\* cue's promise resolves, or the fetch or the decode fails and nothing
\* settles the promise.  `await Promise.all` continues in the same turn
\* once every promise has resolved.
CueLoaded(name, ok) ==
    /\ cueLoad[name] = "loading"
    /\ cueLoad' = [cueLoad EXCEPT ![name] = IF ok THEN "decoded" ELSE "pending forever"]
    /\ audioBuffers' = IF \A n \in audioFiles : cueLoad'[n] = "decoded"
                       THEN audioFiles ELSE audioBuffers
    /\ UNCHANGED <<gameVars, configVars, formVars, disabled, timerVars, recoverVars, sent,
                   alerted, audioEvents,
                   settingsReceived, edits>>

(***************************************************************************)
(* Time.  A decoy tick changes nothing but the counter of its own          *)
(* animation, so the decoy ticks that fall due while time passes are run   *)
(* with the passage of time; every other timer callback is an action of    *)
(* its own, taken when the timer is due.                                   *)
(***************************************************************************)
\* How many more times the interval callback of animation a finds
\* count < steps, with steps = duration / interval.
DecoysLeft(a) ==
    IF a.duration = NaN \/ a.duration <= a.count * interval THEN 0
    ELSE (a.duration + interval - 1) \div interval - a.count

\* How long until the interval callback of animation a runs its last time.
TimeToFinalTick(a) == a.rem + DecoysLeft(a) * interval

\* Animation a after dt ms, dt <= TimeToFinalTick(a): the callback has run
\* n times, each time as DecoyTick.
RunDecoys(a, dt) ==
    IF DecoysLeft(a) = 0 \/ dt < a.rem
    THEN [a EXCEPT !.rem = @ - dt]
    ELSE LET due == (dt - a.rem) \div interval + 1
             n == IF due < DecoysLeft(a) THEN due ELSE DecoysLeft(a)
         IN  [a EXCEPT !.count = @ + n, !.rem = a.rem + n * interval - dt]

\* The delays after which something other than a decoy tick happens.
Pending ==
    {TimeToFinalTick(animations[i]) : i \in DOMAIN animations}
        \cup {enableTimers[i] : i \in DOMAIN enableTimers}
        \cup {listenTimers[i] : i \in DOMAIN listenTimers}
        \cup {audioEvents[i].rem : i \in {j \in DOMAIN audioEvents : audioEvents[j].rem > 0}}
        \cup (IF onloadTimer = NoTimer THEN {} ELSE {onloadTimer})

\* Time passes until the next pending timer is due.  The audio thread has
\* performed the scheduled calls that were due.
Elapse ==
    /\ Pending # {}
    /\ Min(Pending) > 0
    /\ LET dt == Min(Pending)
       IN  /\ animations' = [i \in DOMAIN animations |-> RunDecoys(animations[i], dt)]
           /\ enableTimers' = [i \in DOMAIN enableTimers |-> enableTimers[i] - dt]
           /\ listenTimers' = [i \in DOMAIN listenTimers |-> listenTimers[i] - dt]
           /\ audioEvents' = LET due == SelectSeq(audioEvents, LAMBDA e : e.rem > 0)
                             IN  [i \in DOMAIN due |-> [due[i] EXCEPT !.rem = @ - dt]]
           /\ onloadTimer' = IF onloadTimer = NoTimer THEN NoTimer ELSE onloadTimer - dt
    /\ UNCHANGED <<gameVars, configVars, formVars, disabled, recoverVars, sent, alerted,
                   audioBuffers, cueLoad,
                   settingsReceived, edits>>

(***************************************************************************)
(* The specification.  The environment of Spec is a regular start-up: the  *)
(* main process sends the settings once and the cue files, which are       *)
(* local, load in the order in which getAudioBuffer starts them, all       *)
(* within the 1500 ms that window.onload waits.  The user acts once the    *)
(* form shows the settings, opens the settings modal while the buttons are *)
(* enabled, and the open modal covers the draw button.                     *)
(***************************************************************************)
\* The order of Object.entries(audioFiles).
CueOrder == <<"drawButton", "drawStart", "drawStop">>

\* No cue is still loading.
PreloadEnded == \A name \in audioFiles : cueLoad[name] # "loading"

\* Cue `name` is the first in CueOrder whose load has not ended.
LoadsNext(name) ==
    \E i \in DOMAIN CueOrder :
        /\ CueOrder[i] = name
        /\ \A j \in 1..(i - 1) : cueLoad[CueOrder[j]] # "loading"

\* The onload timer has run.
Started == onloadTimer = NoTimer

\* Start-up: the settings message, the audio preload, the onload timer.
Startup ==
    \/ \E a \in DurationInputs, f \in DurationInputs, b \in BOOLEAN :
           ~settingsReceived /\ SettingsMessage(a, b, f)
    \/ \E name \in audioFiles : LoadsNext(name) /\ CueLoaded(name, TRUE)
    \/ \E rnd \in RandomChoices(PoolSize) :
           PreloadEnded /\ settingsReceived /\ OnloadTimerFire(rnd)

\* The draw button and the timers of a draw.
Draw ==
    \/ Started /\ ~modalOpen /\ DrawRefused
    \/ Started /\ ~modalOpen /\ DrawAccepted
    \/ \E i \in DOMAIN animations : FinalTick(i)
    \/ \E i \in DOMAIN enableTimers : EnableTimerFire(i)

\* The settings modal: its buttons and its fields.
Modal ==
    \/ Started /\ ~disabled /\ ModalButtonClick
    \/ ModalClose
    \/ ModalComplete
    \/ \E v \in DurationInputs : EditAnimationLength(v)
    \/ \E v \in DurationInputs : EditFirstAnimation(v)
    \/ ToggleChange
    \/ SelectLogFile

\* Recovery from a log file.
Recover ==
    \/ \E i \in DOMAIN listenTimers : ListenTimerFire(i)
    \/ \E returnNumbers \in Snapshots : RecoverMessage(returnNumbers)

Next == Startup \/ Draw \/ Modal \/ Recover \/ Elapse

Spec == Init /\ [][Next]_vars

(***************************************************************************)
(* The start-up as the scripts leave it open.  Nothing orders the settings *)
(* message, the loads of the cues, the onload timer and the clicks on the  *)
(* draw button; the fetch or the decode of a cue may fail.  The settings   *)
(* modal stays closed.  A timer that is due runs, and time passes.         *)
(***************************************************************************)
\* What has become of `await getAudioBuffer(entries)` in the load listener:
\* Promise.all resolves when every cue's promise has resolved, and nothing
\* rejects a cue's promise.
PreloadOutcome ==
    IF \A name \in audioFiles : cueLoad[name] = "decoded" THEN "resolved" ELSE "pending"

\* The settings message, the end of a cue's load, the onload timer.
StartupAnyOrder ==
    \/ \E a \in DurationInputs, f \in DurationInputs, b \in BOOLEAN :
           ~settingsReceived /\ SettingsMessage(a, b, f)
    \/ \E name \in audioFiles, ok \in BOOLEAN : CueLoaded(name, ok)
    \/ \E rnd \in RandomChoices(PoolSize) : OnloadTimerFire(rnd)

\* The draw button, clicked at any time, and the timers of a draw.
DrawAnyTime ==
    \/ DrawRefused
    \/ DrawAccepted
    \/ \E i \in DOMAIN animations : FinalTick(i)
    \/ \E i \in DOMAIN enableTimers : EnableTimerFire(i)

NextStartup == StartupAnyOrder \/ DrawAnyTime \/ Elapse

\* The event loop runs a timer callback that is due, and time passes.
TimersRun ==
    \/ \E rnd \in RandomChoices(PoolSize) : OnloadTimerFire(rnd)
    \/ \E i \in DOMAIN animations : FinalTick(i)
    \/ \E i \in DOMAIN enableTimers : EnableTimerFire(i)
    \/ Elapse

SpecStartup == Init /\ [][NextStartup]_vars /\ WF_vars(TimersRun)

(***************************************************************************)
(* A session whose log file may be malformed: the main process answers a   *)
(* readLogFile request with whatever the file holds.                       *)
(***************************************************************************)
\* arg.returnNumbers of a log file that is not well formed: an empty array,
\* a pool without its count, a count that is larger than the pool.
MalformedSnapshots ==
    {<<>>} \cup ShuffledPools \cup {pool \o <<PoolSize + 1>> : pool \in ShuffledPools}

RecoverAny ==
    \/ \E i \in DOMAIN listenTimers : ListenTimerFire(i)
    \/ \E returnNumbers \in Snapshots : RecoverMessage(returnNumbers)
    \/ \E returnNumbers \in MalformedSnapshots : RecoverMessage(returnNumbers)

NextMalformed == Startup \/ Draw \/ Modal \/ RecoverAny \/ Elapse

SpecMalformed == Init /\ [][NextMalformed]_vars

(***************************************************************************)
(* The shuffle on pools of every size up to MaxShuffle, followed by draws. *)
(* The start-up is regular, with settings that give the first draw the    *)
(* duration of the others, and the settings modal stays closed; the guard  *)
(* of the click handler keeps its own literal, PoolSize.                   *)
(***************************************************************************)
ShuffleStartup ==
    \/ \E a \in DurationInputs, b \in BOOLEAN :
           ~settingsReceived /\ SettingsMessage(a, b, a)
    \/ \E name \in audioFiles : LoadsNext(name) /\ CueLoaded(name, TRUE)
    \/ \E n \in 1..MaxShuffle : \E rnd \in RandomChoices(n) :
           PreloadEnded /\ settingsReceived /\ OnloadCallback(n, rnd)

NextShuffle == ShuffleStartup \/ Draw \/ Elapse

SpecShuffle == Init /\ [][NextShuffle]_vars

(***************************************************************************)
(* Properties.                                                             *)
(***************************************************************************)
\* A step that accepts a draw: it starts an animation.
AcceptsDraw == Len(animations') > Len(animations)

\* C1: in every reachable state, also while an animation runs, the history
\* has length drawingCount and history[i] = Pool[i] for every i < drawingCount.
C1_HistoryIsPoolPrefix ==
    /\ Len(calledNumbers) = drawingCount
    /\ \A i \in 1..drawingCount : calledNumbers[i] = At(bingoNumbers, i - 1)

\* C2: from the step that accepts a draw until the step that appends its
\* number to the history the draw trigger stays disabled, so no second draw
\* is accepted while one is in flight.
C2_DisabledWhileInFlight == animations # <<>> => disabled /\ Len(animations) = 1

\* C3: 0 <= drawingCount <= PoolSize in every reachable state, and no
\* accepted draw reads the pool at an index of PoolSize or more (a draw that
\* sends the count c has read index c - 1).
C3_CountWithinPool ==
    /\ drawingCount \in 0..PoolSize
    /\ \A i \in DOMAIN sent : sent[i].drawingCount - 1 < PoolSize

\* C4: a draw requested when drawingCount = PoolSize is refused: no step
\* taken from such a state accepts a draw, sends a notification, schedules
\* a sound cue or changes drawingCount through a draw.
C4_RefusedWhenExhausted ==
    [][drawingCount = PoolSize =>
          ~AcceptsDraw /\ sent' = sent /\ Len(audioEvents') <= Len(audioEvents)]_vars

\* The duration the TimingConfig selects for a draw accepted in this state.
ConfiguredDuration ==
    IF drawingCount = 0 /\ individualFirstAnimationSetting
    THEN firstAnimationLength ELSE animationLength

\* C5: the duration of every accepted draw is firstAnimationLength when
\* drawingCount = 0 at acceptance and the TimingConfig flag
\* individualFirstAnimationSetting is true, and animationLength otherwise.
C5_DurationFromTimingConfig ==
    [][AcceptsDraw =>
          /\ animations'[Len(animations')].duration = ConfiguredDuration
          /\ enableTimers'[Len(enableTimers')] = ConfiguredDuration]_vars

\* A step in which a "recover" message is adopted by a listener.
AdoptsSnapshot == pendingReads' < pendingReads /\ recoverListeners > 0

\* C6: after a recovery that adopts a snapshot with pool p and count k, in
\* any state of the session, the history is exactly p[0..k-1] and
\* drawingCount = k.
C6_RecoveryReplacesHistory ==
    [][AdoptsSnapshot =>
          /\ Len(bingoNumbers') = PoolSize
          /\ drawingCount' \in 0..PoolSize
          /\ calledNumbers' = SubSeq(bingoNumbers', 1, drawingCount')]_vars

\* The range the settings allow for a duration.
DurationRange == animationLengthMin..animationLengthMax

\* C7: once the settings have been supplied, animationLength,
\* firstAnimationLength and the duration of every draw lie in [1000, 10000]
\* in every reachable state.
C7_DurationsInRange ==
    settingsReceived =>
        /\ animationLength \in DurationRange
        /\ firstAnimationLength \in DurationRange
        /\ \A i \in DOMAIN animations : animations[i].duration \in DurationRange

\* min(max(v, 1000), 10000)
MinMax(v) ==
    LET lower == IF v >= animationLengthMin THEN v ELSE animationLengthMin
    IN  IF lower <= animationLengthMax THEN lower ELSE animationLengthMax

\* C8: the settings clamp maps every input duration v to
\* min(max(v, 1000), 10000): every ModalComplete step stores the clamped
\* value of each duration field.
C8_ClampIsMinMax ==
    [][ModalComplete =>
          /\ animationLength' = MinMax(inputAnimationLength)
          /\ firstAnimationLength' = MinMax(inputFirstAnimation.value)]_vars

\* C8 witness: a value above the range was clamped to the maximum, one below
\* the range to the minimum, with the modal closed again.
C8_Witness ==
    /\ ~modalOpen
    /\ animationLength = animationLengthMax
    /\ firstAnimationLength = animationLengthMin

\* C9: every accepted draw sends exactly one notification and no other step
\* sends one; its channel is gameStart exactly when the draw takes
\* drawingCount from 0 to 1, countUpdate otherwise, and it carries the new
\* drawingCount.
C9_OneNotificationPerDraw ==
    [][IF AcceptsDraw
       THEN /\ Len(sent') = Len(sent) + 1
            /\ SubSeq(sent', 1, Len(sent)) = sent
            /\ drawingCount' = drawingCount + 1
            /\ sent'[Len(sent')].drawingCount = drawingCount'
            /\ sent'[Len(sent')].channel = "gameStart" <=> drawingCount = 0
            /\ sent'[Len(sent')].channel \in {"gameStart", "countUpdate"}
       ELSE sent' = sent]_vars

\* C9 witness: a first draw and a later draw have been notified and a draw
\* has been refused.
C9_Witness ==
    /\ Len(sent) >= 2
    /\ sent[1].channel = "gameStart"
    /\ sent[2].channel = "countUpdate"
    /\ alerted

\* The scheduled calls of playDrawSound call c on cue `cue`.
Scheduled(events, c, cue, op) ==
    {events[i].rem : i \in {j \in DOMAIN events :
        events[j].call = c /\ events[j].cue = cue /\ events[j].op = op}}

\* The tick cue's stop and the stop cue's start of every call are due at
\* the same instant.
StopCoincidesWithTickStop(events) ==
    \A i \in DOMAIN events :
        Scheduled(events, events[i].call, "drawStart", "stop")
            = Scheduled(events, events[i].call, "drawStop", "start")

C11_PreloadSettles ==
    /\ audioBuffers # {} => \A name \in audioFiles : cueLoad[name] = "decoded"
    /\ (\E name \in audioFiles : cueLoad[name] = "pending forever")
           => PreloadOutcome = "failed"

\* C12: no step accepts a draw before the preload has resolved and the
\* onload timer has created the pool.
C12_NoDrawBeforeStartup ==
    [][~(Started /\ PreloadOutcome = "resolved") => ~AcceptsDraw]_vars

\* C16: with timers that run when due, every accepted draw completes: the
\* animation ends with its number appended and the buttons, disabled by the
\* draw, are enabled again.
C16_DrawCompletes ==
    /\ (animations # <<>>) ~> (animations = <<>>)
    /\ disabled ~> ~disabled

\* The sequence p holds each of 1..n exactly once.
IsPermutation(p, n) ==
    /\ Len(p) = n
    /\ \A v \in 1..n : \E i \in 1..n : p[i] = v
    /\ \A i \in 1..n : \A j \in 1..n : p[i] = p[j] => i = j

\* C13: for every pool size n and every sequence of random choices the
\* onload callback leaves a pool that is a permutation of 1..n, and once
\* the pool exists no step of a draw changes it.
C13_PoolIsPermutation ==
    [][/\ onloadTimer = 0 /\ onloadTimer' = NoTimer =>
              \A n \in 1..MaxShuffle : \A rnd \in RandomChoices(n) :
                  OnloadCallback(n, rnd) => IsPermutation(bingoNumbers', n)
       /\ Started => bingoNumbers' = bingoNumbers]_vars

\* C13 witness: a pool of MaxShuffle numbers that the shuffle has reordered
\* at both ends, with two numbers drawn from it.
C13_Witness ==
    /\ Started
    /\ Len(bingoNumbers) = MaxShuffle
    /\ bingoNumbers[1] = MaxShuffle
    /\ bingoNumbers[MaxShuffle] = 2
    /\ calledNumbers = <<MaxShuffle, bingoNumbers[2]>>

\* C14: the stored TimingConfig changes only in the step of the settings
\* message or of the complete button; when the modal is cancelled, whatever
\* was edited or toggled in it, the next draw selects the duration that the
\* stored TimingConfig selects, as it did before the modal was opened; and
\* no step changes the duration of a draw in flight.
C14_TimingChangesOnlyWhenConfirmed ==
    [][/\ \/ UNCHANGED configVars
          \/ ModalComplete
          \/ \E a \in DurationInputs, f \in DurationInputs, b \in BOOLEAN :
                 SettingsMessage(a, b, f)
       /\ ModalClose => ClickTime' = ConfiguredDuration'
       /\ Len(animations') >= Len(animations) =>
              \A i \in DOMAIN animations :
                  animations'[i].duration = animations[i].duration]_vars

\* C15: a "recover" message with a malformed snapshot is rejected as a
\* whole: the step leaves bingoNumbers, drawingCount and calledNumbers as
\* they were.
C15_MalformedRejected ==
    [][(\E returnNumbers \in MalformedSnapshots : RecoverMessage(returnNumbers))
          => UNCHANGED gameVars]_vars

\* C17: in the step that accepts a draw the animation, the sound cue and
\* the re-enable timer get one and the same duration, the `time` of the
\* click handler: for the first draw, for later draws and after a recovery.
C17_OneDurationPerDraw ==
    [][AcceptsDraw =>
          LET d == animations'[Len(animations')].duration
          IN  /\ d = ClickTime
              /\ enableTimers' = Append(enableTimers, d)
              /\ Scheduled(audioEvents', Len(sent'), "drawStart", "stop") = {d}
              /\ Scheduled(audioEvents', Len(sent'), "drawStop", "start") = {d}]_vars

\* C17 witness: after a recovery that set drawingCount to 0 a first draw is
\* in flight with the first-draw duration, which differs from the default.
C17_Witness ==
    /\ readRequests > 0 /\ pendingReads = 0 /\ recoverListeners > 0
    /\ calledNumbers # <<>>
    /\ drawingCount = 1
    /\ animationToggle
    /\ firstAnimationLength # animationLength
    /\ Len(animations) = 1 /\ Len(enableTimers) = 1
    /\ animations[1].duration = firstAnimationLength
    /\ enableTimers[1] = firstAnimationLength

\* C18: in every reachable state every element of the history is a number
\* of 1..PoolSize and no number occurs twice in it.
C18_HistoryIsValid ==
    /\ \A i \in DOMAIN calledNumbers : calledNumbers[i] \in 1..PoolSize
    /\ \A i \in DOMAIN calledNumbers : \A j \in DOMAIN calledNumbers :
           calledNumbers[i] = calledNumbers[j] => i = j

\* C19: the step that delivers the reply to a recovery request adopts the
\* snapshot, also when it comes within 500 ms of the request: the pool and
\* the count are the snapshot's and its drawn numbers enter the history
\* once; and the last tick of a draw appends the pool's next entry, the one
\* behind the history, also when a reply has arrived during the draw.
C19_ReplyAdoptedOnce ==
    [][/\ \A returnNumbers \in Snapshots :
              RecoverMessage(returnNumbers) =>
                  /\ bingoNumbers' = SubSeq(returnNumbers, 1, PoolSize)
                  /\ drawingCount' = returnNumbers[PoolSize + 1]
                  /\ Len(calledNumbers') <= Len(calledNumbers) + drawingCount'
       /\ \A i \in DOMAIN animations :
              FinalTick(i) => animations[i].target = At(bingoNumbers, Len(calledNumbers))]_vars

====
